---- MODULE Spec2Model ----
(***************************************************************************)
(* Model of "second assignment/part 3/benchmark.py": the benchmark         *)
(* decorator (argument validation, warmup and timed loops, statistics,     *)
(* table and CSV output) and the threading driver test(func).              *)
(***************************************************************************)
EXTENDS Integers, Sequences, FiniteSets, TLC

(* ------------------------------ bounds --------------------------------- *)

\* Precision, in bits, of the binary floating-point format of the model.
\* Python's float has 53; the rounding rule (round half to even) is the same.
Prec == 3

\* Largest `warmups` and `iter` argument tried by Decorate.
MaxWarmups == 2
MaxIter == 2

\* StatsSpec: measured timings are FromInt(0..MaxTime), at most MaxSamples of them.
MaxTime == 6
MaxSamples == 3

(* ----------------------- binary floating point ------------------------- *)
\* A float is [m, e] with value m * 2^e, normalised: m = 0 and e = 0, or
\* 2^(Prec-1) <= |m| < 2^Prec.  The exponent is unbounded (timings are far
\* from the overflow and underflow thresholds).

RECURSIVE Pow2(_)
Pow2(n) == IF n <= 0 THEN 1 ELSE 2 * Pow2(n - 1)

RECURSIVE BitLen(_)
BitLen(n) == IF n <= 0 THEN 0 ELSE 1 + BitLen(n \div 2)

Abs(n) == IF n < 0 THEN -n ELSE n

Sign(n) == IF n < 0 THEN -1 ELSE 1

IMin(a, b) == IF a <= b THEN a ELSE b

\* a / 2^k rounded to the nearest integer, ties to even (a >= 0, k >= 1).
RoundShift(a, k) ==
  LET q == a \div Pow2(k)
      r == a % Pow2(k)
      half == Pow2(k - 1)
  IN IF r > half \/ (r = half /\ q % 2 = 1) THEN q + 1 ELSE q

\* The float nearest to n * 2^e.
Norm(n, e) ==
  IF n = 0 THEN [m |-> 0, e |-> 0]
  ELSE LET a == Abs(n)
           L == BitLen(a)
       IN IF L <= Prec
          THEN [m |-> Sign(n) * a * Pow2(Prec - L), e |-> e - (Prec - L)]
          ELSE LET k == L - Prec
                   q == RoundShift(a, k)
               IN IF q = Pow2(Prec)
                  THEN [m |-> Sign(n) * Pow2(Prec - 1), e |-> e + k + 1]
                  ELSE [m |-> Sign(n) * q, e |-> e + k]

FromInt(n) == Norm(n, 0)

FZero == FromInt(0)

FAdd(a, b) ==
  LET e == IMin(a.e, b.e)
  IN Norm(a.m * Pow2(a.e - e) + b.m * Pow2(b.e - e), e)

FSub(a, b) == FAdd(a, [m |-> -b.m, e |-> b.e])

FMul(a, b) == Norm(a.m * b.m, a.e + b.e)

\* a / k for an integer k > 0 (k converts to a float exactly), correctly
\* rounded: the quotient is taken with two guard bits and a sticky bit.
FDivInt(a, k) ==
  IF a.m = 0 THEN FZero
  ELSE LET s == Prec + 2 + BitLen(k)
           num == Abs(a.m) * Pow2(s)
           q == num \div k
           sticky == IF num % k = 0 THEN 0 ELSE 1
       IN Norm(Sign(a.m) * (2 * q + sticky), a.e - s - 1)

FLess(a, b) ==
  LET e == IMin(a.e, b.e)
  IN a.m * Pow2(a.e - e) < b.m * Pow2(b.e - e)

FLeq(a, b) == a = b \/ FLess(a, b)

(* ----------------------------- statistics ------------------------------ *)

\* sum(xs): left to right from the integer 0.
RECURSIVE FSum(_)
FSum(xs) ==
  IF xs = <<>> THEN FZero
  ELSE FAdd(FSum(SubSeq(xs, 1, Len(xs) - 1)), xs[Len(xs)])

\* min(xs) and max(xs) keep the first extreme element (non-empty xs).
RECURSIVE FMinSeq(_)
FMinSeq(xs) ==
  IF Len(xs) = 1 THEN xs[1]
  ELSE LET r == FMinSeq(SubSeq(xs, 1, Len(xs) - 1))
       IN IF FLess(xs[Len(xs)], r) THEN xs[Len(xs)] ELSE r

RECURSIVE FMaxSeq(_)
FMaxSeq(xs) ==
  IF Len(xs) = 1 THEN xs[1]
  ELSE LET r == FMaxSeq(SubSeq(xs, 1, Len(xs) - 1))
       IN IF FLess(r, xs[Len(xs)]) THEN xs[Len(xs)] ELSE r

Avg(ts, n) == FDivInt(FSum(ts), n)

VarList(ts, n) ==
  [k \in 1..Len(ts) |-> FMul(FSub(ts[k], Avg(ts, n)), FSub(ts[k], Avg(ts, n)))]

VarSample(ts, n) == FDivInt(FSum(VarList(ts, n)), IF n > 1 THEN n - 1 ELSE 1)

\* var = sum(var_list)/iter
Var(ts, n) == FDivInt(FSum(VarList(ts, n)), n)

(* --------------------------- Python values ----------------------------- *)

\* Defaults of benchmark(warmups=0, iter=1, ...).
DefaultWarmups == 0
DefaultIter == 1

\* A str is its sequence of characters; None is the only NoneType value.
None == [type |-> "NoneType", val |-> <<>>]

Str(chars) == [type |-> "str", val |-> chars]

OutCsv == Str(<<"o", ".", "c", "s", "v">>)
OutTxt == Str(<<"o", ".", "t", "x", "t">>)
OutNoDot == Str(<<"o", "c", "s", "v">>)
EmptyStr == Str(<<>>)
DotCsvOnly == Str(<<".", "c", "s", "v">>)

DotCsv == <<".", "c", "s", "v">>

\* str.endswith
EndsWith(s, suffix) ==
  /\ Len(s) >= Len(suffix)
  /\ SubSeq(s, Len(s) - Len(suffix) + 1, Len(s)) = suffix

\* Truth value of `csv_file` in `if csv_file:`.
Truthy(v) == v.type = "str" /\ v.val # <<>>

(* ------------------------ argument validation -------------------------- *)

WarmupsError == "ValueError: warmups argument is invalid (must be >= 0)"
IterError == "ValueError: iter argument is invalid (must be >= 0)"
CsvError == "ValueError: csv_file is not a valid csv filename"
NoneAttributeError == "AttributeError: NoneType object has no attribute endswith"

WarmupsInvalid(w) == w < 0

IterInvalidNegativeOnly(it) == it < 0

IterInvalid(it) == it <= 0

\* csv_file.endswith('.csv') is evaluated whatever csv_file is: on None the
\* attribute lookup raises before any comparison.
CsvCheckSkippingNone(f) ==
  IF f.type # "str" THEN "none"
  ELSE IF ~EndsWith(f.val, DotCsv) THEN CsvError
  ELSE "none"

CsvCheck(f) ==
  IF f.type # "str" THEN NoneAttributeError
  ELSE IF ~EndsWith(f.val, DotCsv) THEN CsvError
  ELSE "none"

\* The exception benchmark_decorator raises, "none" when it returns the wrapper.
ValidationError(w, it, f) ==
  IF WarmupsInvalid(w) THEN WarmupsError
  ELSE IF IterInvalid(it) THEN IterError
  ELSE CsvCheck(f)

(* ------------------------------- state --------------------------------- *)

VARIABLES
  pc,            \* "start", "rejected", "ready", "warmup", "timed", "csv", "returned"
  warmups, iter, verbose, csv_file,   \* arguments of benchmark(...)
  decoError,     \* exception of the last decoration, "none" if it returned
  calls,         \* executions of func in this invocation: <<phase, index, elapsed>>
  i,             \* completed passes of the current for loop
  warmup_times, times,
  stats,         \* <<>> or <<[min, max, avg, var]>>
  out,           \* console lines of this invocation
  file,          \* content of the file named csv_file
  fileBefore,    \* content of that file when the invocation started
  outcome,       \* "none", "running", "ok", "func_raised", "open_failed", "write_failed"
  level, handlers,   \* root logger: level and whether it has a handler
  lastVerbose,   \* <<>> or <<verbose of the most recent invocation>>
  prev,          \* <<>> or <<report of the previous completed invocation>>
  trial, dpc, slot, started, done, joined, slotCalls, trialCalls  \* test(func)

wrapperVars == <<pc, warmups, iter, verbose, csv_file, decoError, calls, i,
                 warmup_times, times, stats, out, file, fileBefore, outcome,
                 level, handlers, lastVerbose, prev>>

driverVars == <<trial, dpc, slot, started, done, joined, slotCalls, trialCalls>>

vars == <<wrapperVars, driverVars>>

\* perf_counter differences: two distinct readings, enough to tell the
\* executions of one invocation apart.
Elapsed == {FromInt(1), FromInt(2)}

CsvFiles == {None, OutCsv, DotCsvOnly, OutTxt, OutNoDot, EmptyStr}

HeaderLine == [kind |-> "header", run |-> 0, flag |-> "", timing |-> FZero]
OldLine == [kind |-> "old", run |-> 0, flag |-> "", timing |-> FZero]
DataLine(n, f, t) == [kind |-> "data", run |-> n, flag |-> f, timing |-> t]

\* test(func) is not running.
DriverIdle ==
  /\ trial = 0 /\ dpc = "off" /\ slot = 0 /\ started = {} /\ done = <<>>
  /\ joined = 0 /\ slotCalls = 0 /\ trialCalls = 0

Init ==
  /\ pc = "start"
  /\ warmups = DefaultWarmups /\ iter = DefaultIter
  /\ verbose = FALSE /\ csv_file = None
  /\ decoError = "none"
  /\ calls = <<>> /\ i = 0 /\ warmup_times = <<>> /\ times = <<>>
  /\ stats = <<>> /\ out = <<>>
  /\ file \in {<<>>, <<OldLine>>}
  /\ fileBefore = file
  /\ outcome = "none"
  /\ level = "WARNING" /\ handlers = FALSE
  /\ lastVerbose = <<>> /\ prev = <<>>
  /\ DriverIdle

(* ----------------------------- decoration ------------------------------ *)

\* benchmark(w, it, v, f)(func): validates; returns wrapper_benchmark or raises.
Decorate(w, it, v, f) ==
  /\ pc \in {"start", "rejected", "ready"}
  /\ warmups' = w /\ iter' = it /\ verbose' = v /\ csv_file' = f
  /\ decoError' = ValidationError(w, it, f)
  /\ pc' = IF ValidationError(w, it, f) = "none" THEN "ready" ELSE "rejected"
  /\ calls' = <<>> /\ outcome' = "none"
  /\ UNCHANGED <<i, warmup_times, times, stats, out, file, fileBefore,
                 level, handlers, lastVerbose, prev>>
  /\ UNCHANGED driverVars

(* ------------------------------ logging -------------------------------- *)

\* logging.basicConfig(level=lv) does nothing when the root logger already has
\* a handler; otherwise it installs one and sets the level.
\* logging.getLogger().setLevel(WARNING) always sets the level.
LevelAfterSetup(v) ==
  IF v THEN (IF handlers THEN level ELSE "INFO") ELSE "WARNING"

HandlersAfterSetup(v) == handlers \/ v

\* logging.info(...): calls basicConfig() when the root logger has no handler
\* (installing one, level untouched), then emits when the level admits INFO.
LogLines == IF level = "INFO" THEN <<"log">> ELSE <<>>

(* ----------------------------- invocation ------------------------------ *)

\* wrapper_benchmark up to the first loop.
Invoke ==
  /\ pc = "ready"
  /\ level' = LevelAfterSetup(verbose)
  /\ handlers' = HandlersAfterSetup(verbose)
  /\ lastVerbose' = <<verbose>>
  /\ out' = <<"banner">>
  /\ calls' = <<>> /\ i' = 0 /\ warmup_times' = <<>> /\ times' = <<>>
  /\ stats' = <<>>
  /\ fileBefore' = file
  /\ outcome' = "running"
  /\ pc' = "warmup"
  /\ UNCHANGED <<warmups, iter, verbose, csv_file, decoError, file, prev>>
  /\ UNCHANGED driverVars

MoreWarmupsInclusive == i <= warmups

\* for i in range(warmups): another pass is due.
MoreWarmups == i < warmups

MoreIters == i < iter

\* func raises inside run(): the exception leaves wrapper_benchmark.
Raise(phase) ==
  /\ calls' = Append(calls, <<phase, i + 1, FZero>>)
  /\ outcome' = "func_raised"
  /\ pc' = "returned"
  /\ UNCHANGED <<warmups, iter, verbose, csv_file, decoError, i, warmup_times,
                 times, stats, out, file, fileBefore, level, handlers,
                 lastVerbose, prev>>
  /\ UNCHANGED driverVars

\* warmup_times.append(run(is_warmup=True))
RunWarmup ==
  /\ pc = "warmup" /\ MoreWarmups
  /\ \/ \E el \in Elapsed :
          /\ calls' = Append(calls, <<"warmup", i + 1, el>>)
          /\ warmup_times' = Append(warmup_times, el)
          /\ handlers' = TRUE
          /\ out' = out \o LogLines
          /\ i' = i + 1
          /\ UNCHANGED <<pc, warmups, iter, verbose, csv_file, decoError, times,
                         stats, file, fileBefore, outcome, level, lastVerbose, prev>>
          /\ UNCHANGED driverVars
     \/ Raise("warmup")

\* The warmup loop is exhausted; the timed loop starts.
WarmupsDone ==
  /\ pc = "warmup" /\ ~MoreWarmups
  /\ pc' = "timed" /\ i' = 0
  /\ UNCHANGED <<warmups, iter, verbose, csv_file, decoError, calls, warmup_times,
                 times, stats, out, file, fileBefore, outcome, level, handlers,
                 lastVerbose, prev>>
  /\ UNCHANGED driverVars

\* times.append(run())
RunTimed ==
  /\ pc = "timed" /\ MoreIters
  /\ \/ \E el \in Elapsed :
          /\ calls' = Append(calls, <<"timed", i + 1, el>>)
          /\ times' = Append(times, el)
          /\ handlers' = TRUE
          /\ out' = out \o LogLines
          /\ i' = i + 1
          /\ UNCHANGED <<pc, warmups, iter, verbose, csv_file, decoError,
                         warmup_times, stats, file, fileBefore, outcome, level,
                         lastVerbose, prev>>
          /\ UNCHANGED driverVars
     \/ Raise("timed")

StatisticsOverAllRuns ==
  [min |-> FMinSeq(warmup_times \o times), max |-> FMaxSeq(warmup_times \o times),
   avg |-> Avg(warmup_times \o times, iter), var |-> Var(warmup_times \o times, iter)]

\* time_min, time_max, avg, var (stdev = sqrt(var) only feeds the table row and
\* is left out).
Statistics ==
  [min |-> FMinSeq(times), max |-> FMaxSeq(times),
   avg |-> Avg(times, iter), var |-> Var(times, iter)]

\* The statistics and the table. min() of an empty list raises ValueError.
Report ==
  /\ pc = "timed" /\ ~MoreIters
  /\ IF times = <<>>
     THEN /\ outcome' = "func_raised" /\ pc' = "returned"
          /\ UNCHANGED <<stats, out>>
     ELSE /\ stats' = <<Statistics>>
          /\ out' = Append(out, "table")
          /\ pc' = "csv"
          /\ UNCHANGED outcome
  /\ UNCHANGED <<warmups, iter, verbose, csv_file, decoError, calls, i,
                 warmup_times, times, file, fileBefore, level, handlers,
                 lastVerbose, prev>>
  /\ UNCHANGED driverVars

CsvLinesContinuedNumbering ==
  <<HeaderLine>>
  \o [k \in 1..warmups |-> DataLine(k, "y", warmup_times[k])]
  \o [k \in 1..iter |-> DataLine(warmups + k, "n", times[k])]

\* The lines the csv branch prints to the file.
CsvLines ==
  <<HeaderLine>>
  \o [k \in 1..warmups |-> DataLine(k, "y", warmup_times[k])]
  \o [k \in 1..iter |-> DataLine(k, "n", times[k])]

WriteCsvNever == FALSE

\* if csv_file:
WriteCsvWanted == Truthy(csv_file)

ThisReport == [times |-> times, warmup_times |-> warmup_times, stats |-> stats[1]]

\* open(csv_file, 'w') raises: the file is as it was.
CsvOpenFails ==
  /\ pc = "csv" /\ WriteCsvWanted
  /\ outcome' = "open_failed"
  /\ pc' = "returned"
  /\ UNCHANGED <<warmups, iter, verbose, csv_file, decoError, calls, i,
                 warmup_times, times, stats, out, file, fileBefore, level,
                 handlers, lastVerbose, prev>>
  /\ UNCHANGED driverVars

\* open(csv_file, 'w') has truncated the file and a later write raises: some
\* proper prefix of the lines is left in the file.
CsvWriteFails ==
  /\ pc = "csv" /\ WriteCsvWanted
  /\ \E k \in 0..(Len(CsvLines) - 1) : file' = SubSeq(CsvLines, 1, k)
  /\ outcome' = "write_failed"
  /\ pc' = "returned"
  /\ UNCHANGED <<warmups, iter, verbose, csv_file, decoError, calls, i,
                 warmup_times, times, stats, out, fileBefore, level,
                 handlers, lastVerbose, prev>>
  /\ UNCHANGED driverVars

\* The csv branch runs to its end (or is skipped) and the closing banner is
\* printed.  prev is left to the specification: it is history, not program state.
CsvWritten ==
  /\ pc = "csv"
  /\ file' = IF WriteCsvWanted THEN CsvLines ELSE file
  /\ out' = Append(out, "end")
  /\ outcome' = "ok"
  /\ pc' = "returned"
  /\ UNCHANGED <<warmups, iter, verbose, csv_file, decoError, calls, i,
                 warmup_times, times, stats, fileBefore, level, handlers,
                 lastVerbose>>
  /\ UNCHANGED driverVars

CsvWrittenUntracked == CsvWritten /\ UNCHANGED prev

CsvWrittenTracked == CsvWritten /\ prev' = <<ThisReport>>

\* wrapper_benchmark has returned or raised: its locals are gone.
Return ==
  /\ pc = "returned"
  /\ pc' = "ready"
  /\ calls' = <<>> /\ i' = 0 /\ warmup_times' = <<>> /\ times' = <<>>
  /\ stats' = <<>> /\ out' = <<>>
  /\ fileBefore' = file
  /\ outcome' = "none"
  /\ UNCHANGED <<warmups, iter, verbose, csv_file, decoError, file, level,
                 handlers, lastVerbose, prev>>
  /\ UNCHANGED driverVars

\* Any client: decorates functions with valid arguments and calls them.
DecorateValid ==
  \E w \in 0..MaxWarmups, it \in 1..MaxIter, v \in BOOLEAN, f \in {OutCsv} :
    Decorate(w, it, v, f)

Next ==
  \/ DecorateValid
  \/ Invoke
  \/ RunWarmup
  \/ WarmupsDone
  \/ RunTimed
  \/ Report
  \/ CsvOpenFails
  \/ CsvWriteFails
  \/ CsvWrittenUntracked
  \/ Return

Spec == Init /\ [][Next]_vars

\* The same client on a file system that accepts every write, remembering the
\* report of the previous completed invocation.
HistoryNext ==
  \/ DecorateValid
  \/ Invoke
  \/ RunWarmup
  \/ WarmupsDone
  \/ RunTimed
  \/ Report
  \/ CsvOpenFails
  \/ CsvWrittenTracked
  \/ Return

HistorySpec == Init /\ [][HistoryNext]_vars

\* A client that applies benchmark once, with any arguments, and then calls
\* the wrapper it got, if it got one.
DecorateAny ==
  /\ pc = "start"
  /\ \E w \in -2..MaxWarmups, it \in -2..MaxIter, v \in BOOLEAN, f \in CsvFiles :
       Decorate(w, it, v, f)

DecoNext ==
  \/ DecorateAny
  \/ Invoke
  \/ RunWarmup
  \/ WarmupsDone
  \/ RunTimed
  \/ Report
  \/ CsvOpenFails
  \/ CsvWriteFails
  \/ CsvWrittenUntracked
  \/ Return

DecoSpec == Init /\ [][DecoNext]_vars

(* ------------------------------ test(func) ----------------------------- *)
\* trial: index of the func_run call; dpc: "off", "decorate", "slot" (in the
\* timed loop of wrapper_benchmark, between two run() calls), "starting" and
\* "joining" (inside wrapper()), "trialdone", "finished".  slot: completed
\* passes of the timed loop.  started: threads started by this wrapper() call;
\* done[t]: func() calls thread t has completed; joined: threads joined.
\* slotCalls / trialCalls: func() calls of this wrapper() call / of this trial.
\* Elapsed times are not tracked here: a trial's report is one step.

\* The four func_run calls: <<n_threads, n_iter>>.
Trials == << <<1, 16>>, <<2, 8>>, <<4, 4>>, <<8, 2>> >>

n_threads == Trials[trial][1]

n_iter == Trials[trial][2]

DigitChar(d) == <<"0", "1", "2", "3", "4", "5", "6", "7", "8", "9">>[d + 1]

\* str(n) for n >= 0
RECURSIVE DecimalChars(_)
DecimalChars(n) ==
  IF n < 10 THEN <<DigitChar(n)>>
  ELSE DecimalChars(n \div 10) \o <<DigitChar(n % 10)>>

\* f"f_{n_threads}_{n_iter}.csv"
TrialCsv(nt, ni) ==
  Str(<<"f", "_">> \o DecimalChars(nt) \o <<"_">> \o DecimalChars(ni) \o DotCsv)

TrialIterOnce == DefaultIter

\* @benchmark(iter=n_iter, ...): the timed loop runs wrapper() n_iter times.
TrialIter == n_iter

DriverInit ==
  /\ pc = "start"
  /\ warmups = DefaultWarmups /\ iter = DefaultIter
  /\ verbose = FALSE /\ csv_file = None
  /\ decoError = "none"
  /\ calls = <<>> /\ i = 0 /\ warmup_times = <<>> /\ times = <<>>
  /\ stats = <<>> /\ out = <<>>
  /\ file = <<>> /\ fileBefore = <<>>
  /\ outcome = "none"
  /\ level = "WARNING" /\ handlers = FALSE
  /\ lastVerbose = <<>> /\ prev = <<>>
  /\ trial = 1 /\ dpc = "decorate" /\ slot = 0 /\ started = {} /\ done = <<>>
  /\ joined = 0 /\ slotCalls = 0 /\ trialCalls = 0

\* func_run(n_threads, n_iter): decorates wrapper (warmups=0, verbose=False) and
\* returns it; the call that follows enters wrapper_benchmark.
TrialDecorate ==
  /\ dpc = "decorate"
  /\ dpc' = IF ValidationError(DefaultWarmups, TrialIter, TrialCsv(n_threads, n_iter)) = "none"
            THEN "slot" ELSE "finished"
  /\ slot' = 0 /\ trialCalls' = 0 /\ slotCalls' = 0
  /\ started' = {} /\ done' = <<>> /\ joined' = 0
  /\ UNCHANGED trial
  /\ UNCHANGED wrapperVars

\* run() calls wrapper(): the Thread objects are created, none is started.
HarnessBegin ==
  /\ dpc = "slot" /\ slot < TrialIter
  /\ dpc' = "starting"
  /\ started' = {} /\ done' = [t \in 1..n_threads |-> 0]
  /\ joined' = 0 /\ slotCalls' = 0
  /\ UNCHANGED <<trial, slot, trialCalls>>
  /\ UNCHANGED wrapperVars

\* for t in threads: t.start()
StartThread ==
  /\ dpc = "starting"
  /\ started' = started \cup {Cardinality(started) + 1}
  /\ dpc' = IF Cardinality(started) + 1 = n_threads THEN "joining" ELSE "starting"
  /\ UNCHANGED <<trial, slot, done, joined, slotCalls, trialCalls>>
  /\ UNCHANGED wrapperVars

\* iterate_f: for _ in range(n_iter) has another pass.
WorkerHasMore(t) == done[t] < n_iter

\* One func() call of a started thread.
WorkerCall(t) ==
  /\ t \in started /\ WorkerHasMore(t)
  /\ done' = [done EXCEPT ![t] = @ + 1]
  /\ slotCalls' = slotCalls + 1
  /\ trialCalls' = trialCalls + 1
  /\ UNCHANGED <<trial, dpc, slot, started, joined>>
  /\ UNCHANGED wrapperVars

JoinReturnsAtOnce(t) == TRUE

\* t.join() returns once thread t has terminated.
JoinReturns(t) == t \in started /\ ~WorkerHasMore(t)

\* for t in threads: t.join(); after the last one wrapper() returns and run()
\* hands the elapsed time to times.append.
JoinThread ==
  /\ dpc = "joining" /\ joined < n_threads
  /\ JoinReturns(joined + 1)
  /\ joined' = joined + 1
  /\ IF joined + 1 = n_threads
     THEN dpc' = "slot" /\ slot' = slot + 1
     ELSE UNCHANGED <<dpc, slot>>
  /\ UNCHANGED <<trial, started, done, slotCalls, trialCalls>>
  /\ UNCHANGED wrapperVars

\* The timed loop is exhausted: statistics, table, csv file, closing banner.
TrialReport ==
  /\ dpc = "slot" /\ ~(slot < TrialIter)
  /\ dpc' = "trialdone"
  /\ UNCHANGED <<trial, slot, started, done, joined, slotCalls, trialCalls>>
  /\ UNCHANGED wrapperVars

\* The next func_run(...)() statement of test, or its end.
NextTrial ==
  /\ dpc = "trialdone"
  /\ IF trial < Len(Trials)
     THEN trial' = trial + 1 /\ dpc' = "decorate"
     ELSE UNCHANGED trial /\ dpc' = "finished"
  /\ started' = {} /\ done' = <<>>
  /\ UNCHANGED <<slot, joined, slotCalls, trialCalls>>
  /\ UNCHANGED wrapperVars

DriverNext ==
  \/ TrialDecorate
  \/ HarnessBegin
  \/ StartThread
  \/ \E t \in 1..n_threads : WorkerCall(t)
  \/ JoinThread
  \/ TrialReport
  \/ NextTrial

DriverSpec == DriverInit /\ [][DriverNext]_vars

(* --------------------- statistics on wide inputs ----------------------- *)

TimeValues == {FromInt(n) : n \in 0..MaxTime}

RECURSIVE SeqsUpTo(_, _)
SeqsUpTo(S, n) ==
  IF n = 0 THEN {<<>>}
  ELSE LET shorter == SeqsUpTo(S, n - 1)
       IN shorter \cup {Append(q, x) : q \in {r \in shorter : Len(r) = n - 1}, x \in S}

\* wrapper_benchmark (warmups = 0) right after its timed loop, for every
\* sequence of 1..MaxSamples measured timings.
StatsInit ==
  /\ times \in (SeqsUpTo(TimeValues, MaxSamples) \ {<<>>})
  /\ pc = "timed"
  /\ warmups = 0 /\ iter = Len(times) /\ verbose = FALSE /\ csv_file = OutCsv
  /\ decoError = "none"
  /\ calls = [k \in 1..Len(times) |-> <<"timed", k, times[k]>>]
  /\ i = Len(times) /\ warmup_times = <<>>
  /\ stats = <<>> /\ out = <<"banner">>
  /\ file = <<>> /\ fileBefore = <<>>
  /\ outcome = "running"
  /\ level = "WARNING" /\ handlers = TRUE
  /\ lastVerbose = <<FALSE>> /\ prev = <<>>
  /\ DriverIdle

StatsNext == Report

StatsSpec == StatsInit /\ [][StatsNext]_vars

(* ============================== claims ================================= *)

CallSlots == [k \in 1..Len(calls) |-> <<calls[k][1], calls[k][2]>>]

ExpectedSlots(nw, nt) ==
  [k \in 1..nw |-> <<"warmup", k>>] \o [k \in 1..nt |-> <<"timed", k>>]

\* C1: while no execution of func has raised, the executions made by one
\* invocation so far are exactly warmup 1..i (in the warmup loop), then all
\* warmups followed by timed 1..i (in the timed loop); once the loops are over
\* func has run exactly warmups + iter times, every warmup before every timed
\* run, each phase in index order.
C1_PhaseOrder ==
  outcome # "func_raised" =>
    /\ pc = "warmup" => CallSlots = ExpectedSlots(i, 0)
    /\ pc = "timed" => CallSlots = ExpectedSlots(warmups, i)
    /\ pc \in {"csv", "returned"} =>
         /\ Len(calls) = warmups + iter
         /\ CallSlots = ExpectedSlots(warmups, iter)

C1_Witness ==
  /\ pc = "returned" /\ outcome = "ok"
  /\ warmups >= 1 /\ iter >= 2
  /\ Len(calls) = warmups + iter

BadCsvNames == {OutTxt, OutNoDot, EmptyStr}

\* C2: once benchmark(warmups, iter, verbose, csv_file) has been applied with
\* warmups < 0, or iter <= 0, or a csv_file string not ending in ".csv", the
\* decoration has raised, no wrapper exists and func has been executed zero times.
C2_InvalidConfigRejected ==
  (pc # "start" /\ (warmups < 0 \/ iter <= 0 \/ csv_file \in BadCsvNames)) =>
    /\ pc = "rejected"
    /\ decoError # "none"
    /\ calls = <<>>

C2_Witness ==
  /\ pc = "rejected" /\ warmups >= 0 /\ iter = 0 /\ csv_file = OutCsv
  /\ decoError = IterError

\* C3 as stated: when a trial of test(func) is over, func has been called 16
\* times in that trial, all threads and all timed passes counted.
C3_Original ==
  dpc = "trialdone" => trialCalls = 16

\* C3 amended: each call of the harness wrapper() makes n_threads * n_iter = 16
\* calls of func; the trial runs the harness n_iter times, so the whole trial
\* makes 16 * n_iter calls (256, 128, 64, 32).
C3_Amended ==
  /\ (dpc = "slot" /\ slot >= 1) => (slotCalls = 16 /\ n_threads * n_iter = 16)
  /\ dpc = "slot" => trialCalls = 16 * slot
  /\ dpc = "trialdone" =>
       /\ trialCalls = 16 * n_iter
       /\ trialCalls = <<256, 128, 64, 32>>[trial]

C3_Witness ==
  dpc = "trialdone" /\ trial = 4 /\ trialCalls = 32

\* C4: after a successful invocation the file holds the header line and then
\* one line per execution, in execution order: the warmups flagged "y" and
\* numbered 1..warmups, then the timed runs flagged "n" and numbered 1..iter,
\* each with the elapsed time of that execution; nothing of the old content.
C4_CsvContent ==
  (pc = "returned" /\ outcome = "ok") =>
    /\ Len(file) = 1 + warmups + iter
    /\ file[1] = HeaderLine
    /\ \A k \in 1..Len(calls) :
         file[1 + k] = DataLine(calls[k][2],
                                IF calls[k][1] = "warmup" THEN "y" ELSE "n",
                                calls[k][3])
    /\ \A k \in 1..warmups : file[1 + k].flag = "y" /\ file[1 + k].run = k
    /\ \A k \in 1..iter :
         file[1 + warmups + k].flag = "n" /\ file[1 + warmups + k].run = k
    /\ \A k \in 1..Len(file) : file[k].kind # "old"

C4_Witness ==
  /\ pc = "returned" /\ outcome = "ok"
  /\ warmups >= 1
  /\ Len(fileBefore) > Len(file)

FullReport ==
  /\ out = <<"banner">> \o [k \in 1..(Len(out) - 3) |-> "log"] \o <<"table", "end">>
  /\ Len(file) = 1 + warmups + iter
  /\ file[1] = HeaderLine
  /\ \A k \in 1..Len(file) : file[k].kind # "old"

\* C5 as stated: an invocation ends either with the full report (table on the
\* console, complete file) or failed with nothing written: no console output
\* of that call and the file as it was.
C5_Original ==
  pc = "returned" =>
    \/ outcome = "ok" /\ FullReport
    \/ outcome # "ok" /\ out = <<>> /\ file = fileBefore

\* C5 amended: a successful invocation produces the full report.  When func
\* raises in a slot, the opening banner (and the log lines of the completed
\* slots) are already on the console, while the table is not printed and the
\* file is untouched.  When the file cannot be opened, banner and table are
\* already printed and the file is untouched.  When a write fails, banner and
\* table are already printed, the old content is gone and the file holds a
\* proper prefix of the new lines.
C5_Amended ==
  pc = "returned" =>
    /\ outcome \in {"ok", "func_raised", "open_failed", "write_failed"}
    /\ outcome = "ok" => FullReport
    /\ outcome # "ok" => (out # <<>> /\ out[1] = "banner" /\ out[Len(out)] # "end")
    /\ outcome = "func_raised" =>
         /\ \A k \in 1..Len(out) : out[k] # "table"
         /\ file = fileBefore
    /\ outcome = "open_failed" =>
         /\ out[Len(out)] = "table"
         /\ file = fileBefore
    /\ outcome = "write_failed" =>
         /\ out[Len(out)] = "table"
         /\ Len(file) < 1 + warmups + iter
         /\ \A k \in 1..Len(file) : file[k].kind # "old"
         /\ \A k \in 1..Len(file) :
              file[k] = IF k = 1 THEN HeaderLine
                        ELSE DataLine(calls[k - 1][2],
                                      IF calls[k - 1][1] = "warmup" THEN "y" ELSE "n",
                                      calls[k - 1][3])

C5_Witness ==
  /\ pc = "returned" /\ outcome = "func_raised"
  /\ Len(times) >= 1
  /\ out[1] = "banner"
  /\ fileBefore # <<>>

C7_StatsIgnoreWarmups ==
  /\ (pc = "csv" /\ prev # <<>> /\ prev[1].times = times) => prev[1].stats = stats[1]
  /\ (pc = "returned" /\ outcome = "ok") =>
       /\ Len(warmup_times) = warmups
       /\ \A k \in 1..warmups :
            file[1 + k].timing = calls[k][3] /\ calls[k][1] = "warmup"

C7_Witness ==
  /\ pc = "csv" /\ prev # <<>>
  /\ prev[1].times = times /\ Len(times) >= 2
  /\ Len(prev[1].warmup_times) # Len(warmup_times)
  /\ \E k \in 1..Len(warmup_times) : FLess(stats[1].max, warmup_times[k])

AllEqual(ts) == \A j, k \in 1..Len(ts) : ts[j] = ts[k]

\* C8 as stated: min <= mean <= max, variance >= 0, and variance = 0 exactly
\* when all measured timings are equal, in which case min = max = mean.
C8_Original ==
  stats # <<>> =>
    /\ FLeq(stats[1].min, stats[1].avg)
    /\ FLeq(stats[1].avg, stats[1].max)
    /\ FLeq(FZero, stats[1].var)
    /\ (stats[1].var = FZero) <=> AllEqual(times)
    /\ AllEqual(times) => (stats[1].min = stats[1].max /\ stats[1].max = stats[1].avg)

\* C8 amended: min <= max and variance >= 0; variance = 0 only when all
\* measured timings are equal, and then min = max = mean; with at most two
\* timings the mean lies in [min, max] and equal timings give variance 0.
\* (With three or more, the rounded sum can push the mean outside [min, max]
\* and make the variance of equal timings positive.)  The variance divides by
\* iter: for the timings 0, 2 it is 1.
C8_Amended ==
  stats # <<>> =>
    /\ FLeq(stats[1].min, stats[1].max)
    /\ \A k \in 1..Len(times) : FLeq(stats[1].min, times[k]) /\ FLeq(times[k], stats[1].max)
    /\ FLeq(FZero, stats[1].var)
    /\ (stats[1].var = FZero) =>
         (AllEqual(times) /\ stats[1].min = stats[1].max /\ stats[1].max = stats[1].avg)
    /\ Len(times) <= 2 =>
         /\ FLeq(stats[1].min, stats[1].avg) /\ FLeq(stats[1].avg, stats[1].max)
         /\ AllEqual(times) => stats[1].var = FZero
    /\ times = <<FromInt(0), FromInt(2)>> =>
         (stats[1].avg = FromInt(1) /\ stats[1].var = FromInt(1))

C8_Witness ==
  /\ stats # <<>> /\ Len(times) = 3
  /\ ~AllEqual(times)
  /\ FLess(FZero, stats[1].var)
  /\ FLess(stats[1].min, stats[1].avg) /\ FLess(stats[1].avg, stats[1].max)

\* C9 as stated: after any invocation the root logging level is INFO when the
\* most recent invocation had verbose=True and WARNING when it had
\* verbose=False.
C9_Original ==
  lastVerbose # <<>> => level = (IF lastVerbose[1] THEN "INFO" ELSE "WARNING")

\* C10: inside wrapper() every thread is started before the first join; a
\* joined thread has finished its n_iter calls; and whenever the harness is not
\* executing (between timed passes, at the report, between trials) every
\* thread it started has finished all n_iter calls of func.
C10_ForkJoin ==
  /\ dpc = "joining" => started = 1..n_threads
  /\ dpc = "starting" => joined = 0
  /\ dpc \in {"starting", "joining"} => \A t \in 1..joined : done[t] = n_iter
  /\ dpc \notin {"off", "starting", "joining"} => \A t \in started : done[t] = n_iter
  /\ (dpc = "slot" /\ slot >= 1) => (started = 1..n_threads /\ joined = n_threads)

C10_Witness ==
  /\ dpc = "slot" /\ trial = 4 /\ slot = 1
  /\ started = 1..8
  /\ \A t \in started : done[t] = 2

====
